---- MODULE Spec2Model ----
(***************************************************************************)
(* Model of the CryptoGraph widget (src/src/App.tsx, component starting at *)
(* line 64) and of the pure helpers it uses: getSuggestions and the        *)
(* downsampleData step of renderGraph.                                     *)
(*                                                                         *)
(* Strings are sequences of one-character strings, so that length,         *)
(* toLowerCase and includes are computed on the characters.  A nullable    *)
(* value is a sequence of length 0 (null) or 1 (the value).                *)
(***************************************************************************)
EXTENDS Integers, Sequences, FiniteSets, TLC

VARIABLES
    startDate,      \* useState<Date | null>, milliseconds since the epoch
    endDate,        \* useState<Date | null>
    cryptoName,     \* useState('')
    graphData,      \* useState<CryptoData | null>
    allCoins,       \* useState<CoinInfo[]>
    suggestions,    \* useState<CoinInfo[]>
    error,          \* useState<string | null>
    pending,        \* range requests awaiting their response, oldest first
    coinsReq,       \* the coin list request of the mount effect
    sampledPrices,  \* sampledPrices of the last renderGraph run
    rendered,       \* what the last renderGraph run drew, null for no svg
    formatted,      \* argument, locale and result of formatCurrency
    coinListRequests, \* coin list requests issued so far
    last            \* the handler that ran last, with what it was given

vars == <<startDate, endDate, cryptoName, graphData, allCoins, suggestions,
          error, pending, coinsReq, sampledPrices, rendered, formatted,
          coinListRequests, last>>

\* what no handler of the widget writes once it is mounted
derived == <<rendered, formatted, coinListRequests>>

-----------------------------------------------------------------------------
(* Bounds of the model *)

MaxInFlight == 2
MaxCoins == 6
MaxLen == 110
MaxMantissa == 99

-----------------------------------------------------------------------------
(* Nullable values *)

Null == <<>>
Some(v) == <<v>>
IsNull(o) == Len(o) = 0
Val(o) == o[1]

Min2(a, b) == IF a <= b THEN a ELSE b

-----------------------------------------------------------------------------
(* Strings *)

LowerMap ==
    ("A" :> "a") @@ ("B" :> "b") @@ ("C" :> "c") @@ ("D" :> "d") @@
    ("E" :> "e") @@ ("F" :> "f") @@ ("G" :> "g") @@ ("H" :> "h") @@
    ("I" :> "i") @@ ("J" :> "j") @@ ("K" :> "k") @@ ("L" :> "l") @@
    ("M" :> "m") @@ ("N" :> "n") @@ ("O" :> "o") @@ ("P" :> "p") @@
    ("Q" :> "q") @@ ("R" :> "r") @@ ("S" :> "s") @@ ("T" :> "t") @@
    ("U" :> "u") @@ ("V" :> "v") @@ ("W" :> "w") @@ ("X" :> "x") @@
    ("Y" :> "y") @@ ("Z" :> "z")

toLowerCase(s) ==
    [k \in 1..Len(s) |-> IF s[k] \in DOMAIN LowerMap THEN LowerMap[s[k]] ELSE s[k]]

includes(s, t) ==
    \E k \in 0..(Len(s) - Len(t)) : SubSeq(s, k + 1, k + Len(t)) = t

-----------------------------------------------------------------------------
(* getSuggestions *)

\* the filter without its test of the name
CoinMatches_NoName(coin, lowerInput) ==
    \/ includes(toLowerCase(coin.id), lowerInput)
    \/ includes(toLowerCase(coin.symbol), lowerInput)

CoinMatches(coin, lowerInput) ==
    \/ includes(toLowerCase(coin.id), lowerInput)
    \/ includes(toLowerCase(coin.symbol), lowerInput)
    \/ includes(toLowerCase(coin.name), lowerInput)

RECURSIVE FilterMatches(_, _)
FilterMatches(coins, lowerInput) ==
    IF coins = <<>> THEN <<>>
    ELSE (IF CoinMatches(Head(coins), lowerInput) THEN <<Head(coins)>> ELSE <<>>)
         \o FilterMatches(Tail(coins), lowerInput)

MinLen(coin) == Min2(Len(coin.id), Min2(Len(coin.symbol), Len(coin.name)))

\* the comparator with its operands swapped
Compare_Swapped(a, b) == MinLen(b) - MinLen(a)

Compare(a, b) == MinLen(a) - MinLen(b)

\* Array.prototype.sort is stable: an element goes after every element that
\* does not compare greater than it.
\* a sort that is not stable: an element goes before its equals
RECURSIVE InsertSorted_BeforeEquals(_, _)
InsertSorted_BeforeEquals(sorted, x) ==
    IF sorted = <<>> THEN <<x>>
    ELSE IF Compare(Head(sorted), x) >= 0 THEN <<x>> \o sorted
    ELSE <<Head(sorted)>> \o InsertSorted_BeforeEquals(Tail(sorted), x)

RECURSIVE InsertSorted(_, _)
InsertSorted(sorted, x) ==
    IF sorted = <<>> THEN <<x>>
    ELSE IF Compare(Head(sorted), x) > 0 THEN <<x>> \o sorted
    ELSE <<Head(sorted)>> \o InsertSorted(Tail(sorted), x)

RECURSIVE SortMatches(_)
SortMatches(matches) ==
    IF matches = <<>> THEN <<>>
    ELSE InsertSorted(SortMatches(SubSeq(matches, 1, Len(matches) - 1)),
                      matches[Len(matches)])

Slice(s, max) == SubSeq(s, 1, Min2(max, Len(s)))

DefaultMax == 5

getSuggestions(input, coins) ==
    IF input = <<>> THEN <<>>
    ELSE Slice(SortMatches(FilterMatches(coins, toLowerCase(input))), DefaultMax)

-----------------------------------------------------------------------------
(* Values the environment supplies *)

Str_bit == <<"b", "i", "t">>
Str_BTC == <<"B", "T", "C">>
Str_x == <<"x">>
Str_bitcoin == <<"b", "i", "t", "c", "o", "i", "n">>
Str_btc == <<"b", "t", "c">>
Str_Bitcoin == <<"B", "i", "t", "c", "o", "i", "n">>
Str_bitcoin_cash == <<"b", "i", "t", "c", "o", "i", "n", "-", "c", "a", "s", "h">>
Str_bch == <<"b", "c", "h">>
Str_Bitcoin_Cash == <<"B", "i", "t", "c", "o", "i", "n", " ", "C", "a", "s", "h">>

Coin(id, symbol, name) == [id |-> id, symbol |-> symbol, name |-> name]

Bitcoin == Coin(Str_bitcoin, Str_btc, Str_Bitcoin)
BitcoinCash == Coin(Str_bitcoin_cash, Str_bch, Str_Bitcoin_Cash)

\* what the user types into the identifier field
TypedNames == {<<>>, Str_bit, Str_BTC, Str_x}

\* what the date pickers hand to onChange
PickedDates == {Null, Some(1999)}

\* bodies of a successful coins/list response
CoinLists == {<<>>, <<Bitcoin, BitcoinCash>>}

\* bodies of a successful market_chart/range response
PriceData == {[prices |-> <<>>], [prices |-> <<<<0, 5>>, <<1000, 7>>>>]}

ErrorMessage == "Token not found or API error. Please check the name or try a suggestion."

-----------------------------------------------------------------------------
(* The widget *)

Handler(kind, req, data) == [kind |-> kind, req |-> req, data |-> data]

RemoveAt(s, i) == SubSeq(s, 1, i - 1) \o SubSeq(s, i + 1, Len(s))

Init ==
    /\ startDate = Null
    /\ endDate = Null
    /\ cryptoName = <<>>
    /\ graphData = Null
    /\ allCoins = <<>>
    /\ suggestions = <<>>
    /\ error = Null
    /\ pending = <<>>
    /\ coinsReq = "pending"
    /\ sampledPrices = Null
    /\ rendered = Null
    /\ formatted = Null
    /\ coinListRequests = 1
    /\ last = Handler("mount", Null, Null)

\* .then(res => setAllCoins(res.data))
CoinListOk(list) ==
    /\ coinsReq = "pending"
    /\ coinsReq' = "done"
    /\ allCoins' = list
    /\ last' = Handler("coinListOk", Null, Some(list))
    /\ UNCHANGED <<startDate, endDate, cryptoName, graphData, suggestions,
                   error, pending, sampledPrices, derived>>

\* a catch that asks for the list again
CoinListFail_Retries ==
    /\ coinsReq = "pending"
    /\ coinsReq' = "pending"
    /\ coinListRequests' = coinListRequests + 1
    /\ allCoins' = <<>>
    /\ last' = Handler("coinListFail", Null, Null)
    /\ UNCHANGED <<startDate, endDate, cryptoName, graphData, suggestions,
                   error, pending, sampledPrices, rendered, formatted>>

\* .catch(() => setAllCoins([]))
CoinListFail ==
    /\ coinsReq = "pending"
    /\ coinsReq' = "done"
    /\ allCoins' = <<>>
    /\ last' = Handler("coinListFail", Null, Null)
    /\ UNCHANGED <<startDate, endDate, cryptoName, graphData, suggestions,
                   error, pending, sampledPrices, derived>>

\* onChange={(e) => setCryptoName(e.target.value)}
SetCryptoName(v) ==
    /\ cryptoName' = v
    /\ last' = Handler("setCryptoName", Null, Null)
    /\ UNCHANGED <<startDate, endDate, graphData, allCoins, suggestions,
                   error, pending, coinsReq, sampledPrices, derived>>

\* onChange={(newValue) => setStartDate(newValue)}
SetStartDate(d) ==
    /\ startDate' = d
    /\ last' = Handler("setStartDate", Null, Null)
    /\ UNCHANGED <<endDate, cryptoName, graphData, allCoins, suggestions,
                   error, pending, coinsReq, sampledPrices, derived>>

\* onChange={(newValue) => setEndDate(newValue)}
SetEndDate(d) ==
    /\ endDate' = d
    /\ last' = Handler("setEndDate", Null, Null)
    /\ UNCHANGED <<startDate, cryptoName, graphData, allCoins, suggestions,
                   error, pending, coinsReq, sampledPrices, derived>>

\* a click that takes the name of the coin for its id
SelectSuggestion_Name(k) ==
    /\ k \in 1..Len(suggestions)
    /\ cryptoName' = suggestions[k].name
    /\ last' = Handler("selectSuggestion", Null, Some(suggestions[k]))
    /\ UNCHANGED <<startDate, endDate, graphData, allCoins, suggestions,
                   error, pending, coinsReq, sampledPrices, derived>>

\* onClick={() => setCryptoName(coin.id)}
SelectSuggestion(k) ==
    /\ k \in 1..Len(suggestions)
    /\ cryptoName' = suggestions[k].id
    /\ last' = Handler("selectSuggestion", Null, Some(suggestions[k]))
    /\ UNCHANGED <<startDate, endDate, graphData, allCoins, suggestions,
                   error, pending, coinsReq, sampledPrices, derived>>

\* the guard without its check of the identifier
InputMissing_DatesOnly == IsNull(startDate) \/ IsNull(endDate)

\* if (!startDate || !endDate || !cryptoName) return;
InputMissing == IsNull(startDate) \/ IsNull(endDate) \/ cryptoName = <<>>

\* the request with the identifier as typed in its URL
Request_IdentifierAsTyped ==
    [id         |-> cryptoName,
     from       |-> Val(startDate) \div 1000,
     to         |-> Val(endDate) \div 1000,
     cryptoName |-> cryptoName,
     allCoins   |-> allCoins,
     overlapped |-> pending # <<>>]

\* The request of fetchCryptoData: the URL and params that go out, and the
\* cryptoName and allCoins its catch block reads from the closure of the
\* render that the click ran in.
Request ==
    [id         |-> toLowerCase(cryptoName),
     from       |-> Val(startDate) \div 1000,
     to         |-> Val(endDate) \div 1000,
     cryptoName |-> cryptoName,
     allCoins   |-> allCoins,
     overlapped |-> pending # <<>>]

\* fetchCryptoData up to its await
Submit ==
    IF InputMissing
    THEN /\ last' = Handler("submit", Null, Null)
         /\ UNCHANGED <<startDate, endDate, cryptoName, graphData, allCoins,
                        suggestions, error, pending, coinsReq, sampledPrices,
                        derived>>
    ELSE /\ Len(pending) < MaxInFlight
         /\ error' = Null
         /\ suggestions' = <<>>
         /\ graphData' = Null
         /\ pending' = Append([k \in 1..Len(pending) |->
                                  [pending[k] EXCEPT !.overlapped = TRUE]],
                              Request)
         /\ last' = Handler("submit", Some(Request), Null)
         /\ UNCHANGED <<startDate, endDate, cryptoName, allCoins, coinsReq,
                        sampledPrices, derived>>

\* a success path that also clears the error
RangeOk_ClearsError(i, data) ==
    /\ i \in 1..Len(pending)
    /\ graphData' = Some(data)
    /\ error' = Null
    /\ pending' = RemoveAt(pending, i)
    /\ last' = Handler("rangeOk", Some(pending[i]), Some(data))
    /\ UNCHANGED <<startDate, endDate, cryptoName, allCoins, suggestions,
                   coinsReq, sampledPrices, derived>>

\* fetchCryptoData after its await resolved: setGraphData(response.data)
RangeOk(i, data) ==
    /\ i \in 1..Len(pending)
    /\ graphData' = Some(data)
    /\ pending' = RemoveAt(pending, i)
    /\ last' = Handler("rangeOk", Some(pending[i]), Some(data))
    /\ UNCHANGED <<startDate, endDate, cryptoName, allCoins, suggestions,
                   error, coinsReq, sampledPrices, derived>>

\* the catch block reading the coin directory as it is when the response
\* arrives instead of the one of its closure
RangeFail_CurrentCoins(i) ==
    /\ i \in 1..Len(pending)
    /\ error' = Some(ErrorMessage)
    /\ suggestions' = getSuggestions(pending[i].cryptoName, allCoins)
    /\ pending' = RemoveAt(pending, i)
    /\ last' = Handler("rangeFail", Some(pending[i]), Null)
    /\ UNCHANGED <<startDate, endDate, cryptoName, graphData, allCoins,
                   coinsReq, sampledPrices, derived>>

\* the catch block reading the identifier field as it is when the response
\* arrives instead of the one of its closure
RangeFail_CurrentName(i) ==
    /\ i \in 1..Len(pending)
    /\ error' = Some(ErrorMessage)
    /\ suggestions' = getSuggestions(cryptoName, pending[i].allCoins)
    /\ pending' = RemoveAt(pending, i)
    /\ last' = Handler("rangeFail", Some(pending[i]), Null)
    /\ UNCHANGED <<startDate, endDate, cryptoName, graphData, allCoins,
                   coinsReq, sampledPrices, derived>>

\* fetchCryptoData after its await rejected: the catch block
RangeFail(i) ==
    /\ i \in 1..Len(pending)
    /\ error' = Some(ErrorMessage)
    /\ suggestions' = getSuggestions(pending[i].cryptoName, pending[i].allCoins)
    /\ pending' = RemoveAt(pending, i)
    /\ last' = Handler("rangeFail", Some(pending[i]), Null)
    /\ UNCHANGED <<startDate, endDate, cryptoName, graphData, allCoins,
                   coinsReq, sampledPrices, derived>>

Str_price_chart_svg ==
    <<"-", "p", "r", "i", "c", "e", "-", "c", "h", "a", "r", "t", ".",
      "s", "v", "g">>

\* if (!graphData?.prices.length) return null; otherwise renderGraph returns
\* the svg element that svgRef points to
SvgRendered == ~IsNull(graphData) /\ Len(Val(graphData).prices) # 0

\* a download handler that serializes whenever there is graphData
DownloadSVG_NoRefGuard ==
    /\ last' = Handler("downloadSVG", Null,
                       IF ~IsNull(graphData)
                       THEN Some(cryptoName \o Str_price_chart_svg)
                       ELSE Null)
    /\ UNCHANGED <<startDate, endDate, cryptoName, graphData, allCoins,
                   suggestions, error, pending, coinsReq, sampledPrices,
                   derived>>

\* downloadSVG; the data of the handler is the name of the file that
\* link.click() downloads, null when it returned at its guard
DownloadSVG ==
    /\ last' = Handler("downloadSVG", Null,
                       IF SvgRendered
                       THEN Some(cryptoName \o Str_price_chart_svg)
                       ELSE Null)
    /\ UNCHANGED <<startDate, endDate, cryptoName, graphData, allCoins,
                   suggestions, error, pending, coinsReq, sampledPrices,
                   derived>>

Next ==
    \/ \E list \in CoinLists : CoinListOk(list)
    \/ CoinListFail
    \/ \E v \in TypedNames : SetCryptoName(v)
    \/ \E d \in PickedDates : SetStartDate(d)
    \/ \E d \in PickedDates : SetEndDate(d)
    \/ \E k \in 1..DefaultMax : SelectSuggestion(k)
    \/ Submit
    \/ DownloadSVG
    \/ \E i \in 1..MaxInFlight, d \in PriceData : RangeOk(i, d)
    \/ \E i \in 1..MaxInFlight : RangeFail(i)

Spec == Init /\ [][Next]_vars

\* The widget while its coin list request is outstanding, with date pickers
\* that hand over dates before 1970, dates that are not whole seconds and
\* an end date before the start date.
SubmitNames == {<<>>, Str_BTC, Str_x}

SubmitDates == {Null, Some(-1), Some(1999)}

NextSubmit ==
    \/ \E v \in SubmitNames : SetCryptoName(v)
    \/ \E d \in SubmitDates : SetStartDate(d)
    \/ \E d \in SubmitDates : SetEndDate(d)
    \/ Submit
    \/ \E i \in 1..MaxInFlight, d \in PriceData : RangeOk(i, d)
    \/ \E i \in 1..MaxInFlight : RangeFail(i)

SpecSubmit == Init /\ [][NextSubmit]_vars

-----------------------------------------------------------------------------
(* Properties of the range fetcher *)

\* C1: immediately after a range response resolved successfully, the price
\* series is that response's data, the error is null and the suggestion
\* list is empty, also when requests overlap.
C1_SuccessReplacesAndClears ==
    last.kind = "rangeOk" =>
        /\ graphData = last.data
        /\ error = Null
        /\ suggestions = <<>>

\* C2: an error message and a price series are never present together, and
\* immediately after a failed range fetch the price series is null.
C2_ErrorExcludesSeries ==
    /\ ~(error # Null /\ graphData # Null)
    /\ last.kind = "rangeFail" => graphData = Null

\* what a response leaves behind when its request is the only one
AloneTriple(h) ==
    IF h.kind = "rangeOk"
    THEN <<h.data, Null, <<>>>>
    ELSE <<Null, Some(ErrorMessage),
           getSuggestions(Val(h.req).cryptoName, Val(h.req).allCoins)>>

\* C3: once overlapping range requests have all resolved, price series,
\* error and suggestions are what the last response to resolve would have
\* left had its request been the only one.
C3_LastResponseWins ==
    (/\ pending = <<>>
     /\ last.kind \in {"rangeOk", "rangeFail"}
     /\ Val(last.req).overlapped)
    => <<graphData, error, suggestions>> = AloneTriple(last)

\* C4: immediately after a range fetch failed, the error is the one fixed
\* message and the suggestions are the matcher's result for the identifier
\* typed when that request was submitted (over the directory of that moment).
C4_FailureSetsErrorAndSuggestions ==
    last.kind = "rangeFail" =>
        /\ error = Some(ErrorMessage)
        /\ suggestions = getSuggestions(Val(last.req).cryptoName,
                                        Val(last.req).allCoins)

\* a failure produced suggestions after the identifier field was edited
\* while its request was outstanding
C4_Witness ==
    /\ last.kind = "rangeFail"
    /\ suggestions # <<>>
    /\ cryptoName # Val(last.req).cryptoName
    /\ getSuggestions(cryptoName, Val(last.req).allCoins) # suggestions

\* C5: a submit with the identifier, the start date or the end date missing
\* issues no request and leaves price series, error, suggestions and the
\* input fields unchanged.
C5_SubmitWithMissingInputIsNoOp ==
    [][(last'.kind = "submit" /\
        (IsNull(startDate) \/ IsNull(endDate) \/ Len(cryptoName) = 0))
       => UNCHANGED <<pending, graphData, error, suggestions, cryptoName,
                      startDate, endDate, allCoins>>]_vars

\* a submit that returned at the guard while a chart was displayed and both
\* dates were set: only the identifier was missing
C5_Witness ==
    /\ last.kind = "submit"
    /\ IsNull(last.req)
    /\ cryptoName = <<>>
    /\ ~IsNull(startDate)
    /\ ~IsNull(endDate)
    /\ graphData # Null

-----------------------------------------------------------------------------
(* getSuggestions on its own: any input over any directory *)

Str_a == <<"a">>
Str_AB == <<"A", "B">>

PoolCoins ==
    {Coin(<<"a", "b">>, <<"a">>, <<"A", "b">>),
     Coin(<<"x", "a", "b">>, <<"x", "y">>, <<"X", "A", "B">>),
     Coin(<<"y", "y", "y">>, <<"y", "y", "y">>, <<"A", " ", "b">>),
     Coin(<<"y">>, <<"y", "y">>, <<"y", "y", "y">>)}

SuggestInputs == {<<>>, Str_a, Str_AB}

Directories == UNION {[1..n -> PoolCoins] : n \in 0..MaxCoins}

BitcoinDirectories == {<<Bitcoin, BitcoinCash>>, <<BitcoinCash, Bitcoin>>}

InitSuggestions ==
    /\ \/ cryptoName \in SuggestInputs /\ allCoins \in Directories
       \/ cryptoName = Str_bit /\ allCoins \in BitcoinDirectories
    /\ suggestions = <<>>
    /\ startDate = Null
    /\ endDate = Null
    /\ graphData = Null
    /\ error = Null
    /\ pending = <<>>
    /\ coinsReq = "done"
    /\ sampledPrices = Null
    /\ rendered = Null
    /\ formatted = Null
    /\ coinListRequests = 1
    /\ last = Handler("input", Null, Null)

\* getSuggestions(cryptoName, allCoins), as the catch block calls it
CallGetSuggestions ==
    /\ last.kind = "input"
    /\ suggestions' = getSuggestions(cryptoName, allCoins)
    /\ last' = Handler("getSuggestions", Null, Null)
    /\ UNCHANGED <<startDate, endDate, cryptoName, graphData, allCoins,
                   error, pending, coinsReq, sampledPrices, derived>>

NextSuggestions == CallGetSuggestions

SpecSuggestions == InitSuggestions /\ [][NextSuggestions]_vars

\* two characters that differ at most in case
SameLetter(a, b) ==
    \/ a = b
    \/ a \in DOMAIN LowerMap /\ LowerMap[a] = b
    \/ b \in DOMAIN LowerMap /\ LowerMap[b] = a

\* field contains input as a case-insensitive substring
ContainsCI(field, input) ==
    \E k \in 0..(Len(field) - Len(input)) :
        \A j \in 1..Len(input) : SameLetter(field[k + j], input[j])

IsMatch(coin, input) ==
    ContainsCI(coin.id, input) \/ ContainsCI(coin.symbol, input)
        \/ ContainsCI(coin.name, input)

Occurrences(s, x) == Cardinality({k \in 1..Len(s) : s[k] = x})

RankKey(coin) ==
    CHOOSE m \in {Len(coin.id), Len(coin.symbol), Len(coin.name)} :
        \A n \in {Len(coin.id), Len(coin.symbol), Len(coin.name)} : m <= n

\* C6: getSuggestions returns the empty list for empty input; for other
\* input at most 5 coins, each an element of the directory that contains
\* the input in its id, symbol or name whatever the case, and all matching
\* coins of the directory when it returns fewer than 5.
C6_SuggestionsAreMatches ==
    last.kind = "getSuggestions" =>
        IF cryptoName = <<>>
        THEN suggestions = <<>>
        ELSE /\ Len(suggestions) <= 5
             /\ \A k \in 1..Len(suggestions) :
                    /\ \E j \in 1..Len(allCoins) : allCoins[j] = suggestions[k]
                    /\ IsMatch(suggestions[k], cryptoName)
                    /\ Occurrences(suggestions, suggestions[k])
                           <= Occurrences(allCoins, suggestions[k])
             /\ Len(suggestions) < 5 =>
                    \A j \in 1..Len(allCoins) :
                        IsMatch(allCoins[j], cryptoName) =>
                            Occurrences(suggestions, allCoins[j])
                                = Occurrences(allCoins, allCoins[j])

\* fewer than 5 suggestions from a directory that also holds coins that do
\* not match, one suggestion matching by its name only
C6_Witness ==
    /\ last.kind = "getSuggestions"
    /\ Len(suggestions) \in 1..4
    /\ Len(allCoins) > Len(suggestions)
    /\ \E k \in 1..Len(suggestions) :
           /\ ~ContainsCI(suggestions[k].id, cryptoName)
           /\ ~ContainsCI(suggestions[k].symbol, cryptoName)

\* C7: the returned list is in non-decreasing order of
\* min(len(id), len(symbol), len(name)), and no matching coin that was left
\* out has a strictly smaller key than a returned one.
C7_SuggestionsAreTopRanked ==
    last.kind = "getSuggestions" =>
        /\ \A k \in 1..(Len(suggestions) - 1) :
               RankKey(suggestions[k]) <= RankKey(suggestions[k + 1])
        /\ cryptoName # <<>> =>
               \A j \in 1..Len(allCoins) :
                   (/\ IsMatch(allCoins[j], cryptoName)
                    /\ Occurrences(suggestions, allCoins[j])
                           < Occurrences(allCoins, allCoins[j]))
                   => \A k \in 1..Len(suggestions) :
                          RankKey(suggestions[k]) <= RankKey(allCoins[j])

\* 5 suggestions of different keys while a matching coin was left out, from
\* a directory that was not in key order
C7_Witness ==
    /\ last.kind = "getSuggestions"
    /\ Len(suggestions) = 5
    /\ RankKey(suggestions[1]) < RankKey(suggestions[5])
    /\ \E j \in 1..Len(allCoins) :
           /\ IsMatch(allCoins[j], cryptoName)
           /\ Occurrences(suggestions, allCoins[j])
                  < Occurrences(allCoins, allCoins[j])
    /\ \E j \in 1..(Len(allCoins) - 1) :
           /\ IsMatch(allCoins[j], cryptoName)
           /\ IsMatch(allCoins[j + 1], cryptoName)
           /\ RankKey(allCoins[j]) > RankKey(allCoins[j + 1])

\* C8 as stated: for input "bit", bitcoin is ranked before bitcoin-cash
\* whichever of the two the directory lists first.
C8_BitcoinFirstInEitherOrder ==
    (/\ last.kind = "getSuggestions"
     /\ cryptoName = Str_bit
     /\ allCoins \in BitcoinDirectories)
    => suggestions = <<Bitcoin, BitcoinCash>>

\* C8 amended: for input "bit" over bitcoin and bitcoin-cash both coins are
\* returned; their keys are equal (3, the length of the symbol), so they
\* come in the order of the directory: bitcoin first when the directory
\* lists it first, bitcoin-cash first when the directory lists that first.
C8_BitcoinRankedInDirectoryOrder ==
    (/\ last.kind = "getSuggestions"
     /\ cryptoName = Str_bit
     /\ allCoins \in BitcoinDirectories)
    => /\ suggestions = allCoins
       /\ RankKey(Bitcoin) = RankKey(BitcoinCash)

\* the matcher ran on "bit" over the directory that lists bitcoin-cash first
C8_Witness ==
    /\ last.kind = "getSuggestions"
    /\ cryptoName = Str_bit
    /\ allCoins = <<BitcoinCash, Bitcoin>>
    /\ Len(suggestions) = 2

-----------------------------------------------------------------------------
(* Numbers: the IEEE 754 double arithmetic of data.length / targetPoints,  *)
(* i * step and Math.floor.  A positive double is [m, e]: m its            *)
(* significant bits, most significant first, at most 53 of them, and e the *)
(* exponent of the last bit of m, so that its value is m * 2^e.  Zero has  *)
(* no bits.                                                                *)

Precision == 53

RECURSIVE BitsOf(_)
BitsOf(n) == IF n = 0 THEN <<>> ELSE BitsOf(n \div 2) \o <<n % 2>>

RECURSIVE ToInt(_)
ToInt(bits) ==
    IF bits = <<>> THEN 0
    ELSE 2 * ToInt(SubSeq(bits, 1, Len(bits) - 1)) + bits[Len(bits)]

RECURSIVE AddOne(_)
AddOne(bits) ==
    IF bits = <<>> THEN <<1>>
    ELSE IF bits[Len(bits)] = 0
         THEN SubSeq(bits, 1, Len(bits) - 1) \o <<1>>
         ELSE AddOne(SubSeq(bits, 1, Len(bits) - 1)) \o <<0>>

\* round to nearest, ties to even: kept are the bits that stay, roundUp
\* tells whether the dropped part is more than half a unit of the last kept
\* bit, or exactly half with the last kept bit odd
Rounded(kept, e, roundUp) ==
    IF ~roundUp THEN [m |-> kept, e |-> e]
    ELSE LET up == AddOne(kept)
         IN  IF Len(up) > Precision
             THEN [m |-> SubSeq(up, 1, Precision), e |-> e + 1]
             ELSE [m |-> up, e |-> e]

\* long division of r / b after the bits acc, down to Precision bits
RECURSIVE DivBits(_, _, _, _)
DivBits(r, b, acc, e) ==
    IF Len(acc) = Precision
    THEN Rounded(acc, e,
                 2 * r > b \/ (2 * r = b /\ acc[Precision] = 1))
    ELSE LET bit == IF 2 * r >= b THEN 1 ELSE 0
             rest == IF 2 * r >= b THEN 2 * r - b ELSE 2 * r
         IN  DivBits(rest, b,
                     IF acc = <<>> /\ bit = 0 THEN <<>> ELSE acc \o <<bit>>,
                     e - 1)

\* a / b for integers a >= 0, b > 0
FlDiv(a, b) ==
    IF a = 0 THEN [m |-> <<>>, e |-> 0]
    ELSE DivBits(a % b, b, BitsOf(a \div b), 0)

\* the bits of m times the integer i, from bit k down
RECURSIVE MulFrom(_, _, _, _)
MulFrom(m, i, k, carry) ==
    IF k = 0 THEN BitsOf(carry)
    ELSE LET t == m[k] * i + carry
         IN  IF t % 2 = 0
             THEN MulFrom(m, i, k - 1, t \div 2) \o <<0>>
             ELSE MulFrom(m, i, k - 1, t \div 2) \o <<1>>

\* i * x for an integer i > 0 and a double x
FlMul(i, x) ==
    LET p == MulFrom(x.m, i, Len(x.m), 0)
        d == Len(p) - Precision
    IN  IF d <= 0 THEN [m |-> p, e |-> x.e]
        ELSE Rounded(SubSeq(p, 1, Precision), x.e + d,
                     /\ p[Precision + 1] = 1
                     /\ \/ \E k \in (Precision + 2)..Len(p) : p[k] = 1
                        \/ p[Precision] = 1)

\* Math.floor(x) for a double x >= 0 below 2^31
FlFloor(x) ==
    IF x.e >= 0 THEN ToInt(x.m) * (2 ^ x.e)
    ELSE IF Len(x.m) + x.e <= 0 THEN 0
    ELSE ToInt(SubSeq(x.m, 1, Len(x.m) + x.e))

-----------------------------------------------------------------------------
(* downsampleData, the first step of renderGraph *)

TargetPoints == 75

\* the loop taken one step too far: for (i = 1; i < targetPoints; i++)
Resample_LoopToBudget(data, targetPoints) ==
    LET step == FlDiv(Len(data), targetPoints)
    IN  <<data[1]>>
        \o [i \in 1..(targetPoints - 1) |-> data[FlFloor(FlMul(i, step)) + 1]]
        \o <<data[Len(data)]>>

\* downsampleData past its early return
Resample(data, targetPoints) ==
    LET step == FlDiv(Len(data), targetPoints)
    IN  <<data[1]>>
        \o [i \in 1..(targetPoints - 2) |-> data[FlFloor(FlMul(i, step)) + 1]]
        \o <<data[Len(data)]>>

\* downsampleData resampling every series that has a point
downsampleData_NoEarlyReturn(data, targetPoints) ==
    IF Len(data) = 0 THEN data ELSE Resample(data, targetPoints)

downsampleData(data, targetPoints) ==
    IF Len(data) <= targetPoints THEN data ELSE Resample(data, targetPoints)

\* a price series of n points [timestamp, price], time-ascending; shape 1
\* is a flat series, the other shapes move
PriceAt(shape, k) == IF shape = 1 THEN 5 ELSE 1 + ((k * shape) % 7)

Series(n, shape) == [k \in 1..n |-> <<1000 * (k - 1), PriceAt(shape, k)>>]

SeriesShapes == {1, 2, 3}

InitDownsample ==
    /\ \E n \in 0..MaxLen, shape \in SeriesShapes :
           graphData = Some([prices |-> Series(n, shape)])
    /\ sampledPrices = Null
    /\ startDate = Null
    /\ endDate = Null
    /\ cryptoName = <<>>
    /\ allCoins = <<>>
    /\ suggestions = <<>>
    /\ error = Null
    /\ pending = <<>>
    /\ coinsReq = "done"
    /\ rendered = Null
    /\ formatted = Null
    /\ coinListRequests = 1
    /\ last = Handler("input", Null, Null)

\* const sampledPrices = downsampleData(prices);
CallDownsampleData ==
    /\ last.kind = "input"
    /\ sampledPrices' = Some(downsampleData(Val(graphData).prices, TargetPoints))
    /\ last' = Handler("downsampleData", Null, Null)
    /\ UNCHANGED <<startDate, endDate, cryptoName, graphData, allCoins,
                   suggestions, error, pending, coinsReq, derived>>

NextDownsample == CallDownsampleData

SpecDownsample == InitDownsample /\ [][NextDownsample]_vars

\* index into the raw series of a point, from its timestamp
RawIndex(point) == point[1] \div 1000

\* C9: a series no longer than the point budget comes back unchanged.
C9_ShortSeriesUnchanged ==
    (/\ last.kind = "downsampleData"
     /\ Len(Val(graphData).prices) <= 75)
    => /\ Len(Val(sampledPrices)) = Len(Val(graphData).prices)
       /\ \A k \in 1..Len(Val(graphData).prices) :
              Val(sampledPrices)[k] = Val(graphData).prices[k]

\* downsampleData ran on a series of exactly as many points as the budget
C9_Witness ==
    /\ last.kind = "downsampleData"
    /\ Len(Val(graphData).prices) = 75
    /\ Len(Val(sampledPrices)) = 75

\* C10 as stated: a series of L > B points is sampled at the raw indices
\* 0, floor(i * L / B) for i = 1..B-2, and L - 1.
C10_SampledAtExactIndices ==
    (/\ last.kind = "downsampleData"
     /\ Len(Val(graphData).prices) > 75)
    => LET L == Len(Val(graphData).prices)
           out == Val(sampledPrices)
       IN  /\ Len(out) = 75
           /\ out[1] = Val(graphData).prices[1]
           /\ out[75] = Val(graphData).prices[L]
           /\ \A i \in 1..73 : RawIndex(out[i + 1]) = (i * L) \div 75

\* C10 amended: a series of L > B points is sampled at B raw indices: 0,
\* then for i = 1..B-2 the index floor(i * L / B), or one less than that
\* where B divides i * L (the stride L / B is a rounded double), then
\* L - 1; the indices are strictly increasing, every sampled point is the
\* raw point at its index.
C10_SampledAtRoundedIndices ==
    (/\ last.kind = "downsampleData"
     /\ Len(Val(graphData).prices) > 75)
    => LET L == Len(Val(graphData).prices)
           out == Val(sampledPrices)
       IN  /\ Len(out) = 75
           /\ out[1] = Val(graphData).prices[1]
           /\ out[75] = Val(graphData).prices[L]
           /\ \A i \in 1..73 :
                  \/ RawIndex(out[i + 1]) = (i * L) \div 75
                  \/ /\ (i * L) % 75 = 0
                     /\ RawIndex(out[i + 1]) = (i * L) \div 75 - 1
           /\ \A k \in 1..74 : RawIndex(out[k]) < RawIndex(out[k + 1])
           /\ \A k \in 1..75 :
                  out[k] = Val(graphData).prices[RawIndex(out[k]) + 1]

\* a series of 87 points was sampled, and its 26th sample is raw point 28
\* where floor(25 * 87 / 75) is 29
C10_Witness ==
    /\ last.kind = "downsampleData"
    /\ Len(Val(graphData).prices) = 87
    /\ Len(Val(sampledPrices)) = 75
    /\ RawIndex(Val(sampledPrices)[26]) = 28

-----------------------------------------------------------------------------
(* formatCurrency.  A value is the decimal mant * 10^exp, the way a price  *)
(* is written in a response; a string is a sequence of characters.         *)

Digit == <<"0", "1", "2", "3", "4", "5", "6", "7", "8", "9">>

RECURSIVE DigitsOf(_)
DigitsOf(n) ==
    IF n < 10 THEN <<Digit[n + 1]>>
    ELSE DigitsOf(n \div 10) \o <<Digit[(n % 10) + 1]>>

Pow10(k) == 10 ^ k

\* value >= threshold, for an integer threshold
AtLeast(v, threshold) ==
    IF v.exp >= 0 THEN v.mant * Pow10(v.exp) >= threshold
    ELSE v.mant \div Pow10(-v.exp) >= threshold

\* the integers n for which n / 10^digits is closest to v.  Where v lies
\* halfway between two of them in decimal, the double that stands for v
\* lies on either side, and with it the n that toFixed picks.
Nearest(v, digits) ==
    LET s == v.exp + digits
    IN  IF s >= 0 THEN {v.mant * Pow10(s)}
        ELSE LET q == v.mant \div Pow10(-s)
                 r == v.mant % Pow10(-s)
             IN  IF 2 * r < Pow10(-s) THEN {q}
                 ELSE IF 2 * r > Pow10(-s) THEN {q + 1}
                 ELSE {q, q + 1}

\* n / 10^digits written with exactly that many decimals
FixedString(n, digits) ==
    LET ds == DigitsOf(n)
        padded == [k \in 1..(digits + 1 - Len(ds)) |-> "0"] \o ds
    IN  SubSeq(padded, 1, Len(padded) - digits) \o <<".">>
        \o SubSeq(padded, Len(padded) - digits + 1, Len(padded))

\* Number.prototype.toFixed: the strings it can return for v
toFixed(v, digits) == {FixedString(n, digits) : n \in Nearest(v, digits)}

\* Math.round: halves go up
MathRound(v) ==
    IF v.exp >= 0 THEN v.mant * Pow10(v.exp)
    ELSE LET q == v.mant \div Pow10(-v.exp)
             r == v.mant % Pow10(-v.exp)
         IN  IF 2 * r >= Pow10(-v.exp) THEN q + 1 ELSE q

\* the default locale of the runtime: its grouping separator, the size of
\* the last group and the size of the groups before it
Locales ==
    {[tag |-> "en-US", sep |-> ",", last |-> 3, before |-> 3],
     [tag |-> "de-DE", sep |-> ".", last |-> 3, before |-> 3],
     [tag |-> "en-IN", sep |-> ",", last |-> 3, before |-> 2]}

RECURSIVE Grouped(_, _, _, _)
Grouped(ds, size, before, sep) ==
    IF Len(ds) <= size THEN ds
    ELSE Grouped(SubSeq(ds, 1, Len(ds) - size), before, before, sep)
         \o <<sep>> \o SubSeq(ds, Len(ds) - size + 1, Len(ds))

\* Number.prototype.toLocaleString() of an integer, no locale given
toLocaleString(n, locale) ==
    Grouped(DigitsOf(n), locale.last, locale.before, locale.sep)

\* value / 1000000
PerMillion(v) == [mant |-> v.mant, exp |-> v.exp - 6]

\* the strings formatCurrency(value) can return under the locale
formatCurrency(value, locale) ==
    IF AtLeast(value, 1000000)
    THEN {<<"$">> \o t \o <<"M">> : t \in toFixed(PerMillion(value), 2)}
    ELSE IF AtLeast(value, 10000)
    THEN {<<"$">> \o toLocaleString(MathRound(value), locale)}
    ELSE IF AtLeast(value, 1)
    THEN {<<"$">> \o t : t \in toFixed(value, 2)}
    ELSE {<<"$">> \o t : t \in toFixed(value, 5)}

FormatValues ==
    {v \in [mant : 0..MaxMantissa, exp : (-7)..6] : v.mant = 0 => v.exp = 0}

InitFormat ==
    /\ \E v \in FormatValues, l \in Locales :
           formatted = Some([value |-> v, locale |-> l, result |-> Null])
    /\ startDate = Null
    /\ endDate = Null
    /\ cryptoName = <<>>
    /\ graphData = Null
    /\ allCoins = <<>>
    /\ suggestions = <<>>
    /\ error = Null
    /\ pending = <<>>
    /\ coinsReq = "done"
    /\ sampledPrices = Null
    /\ rendered = Null
    /\ coinListRequests = 1
    /\ last = Handler("input", Null, Null)

\* {formatCurrency(point.value)}
CallFormatCurrency ==
    /\ last.kind = "input"
    /\ \E r \in formatCurrency(Val(formatted).value, Val(formatted).locale) :
           formatted' = Some([Val(formatted) EXCEPT !.result = Some(r)])
    /\ last' = Handler("formatCurrency", Null, Null)
    /\ UNCHANGED <<startDate, endDate, cryptoName, graphData, allCoins,
                   suggestions, error, pending, coinsReq, sampledPrices,
                   rendered, coinListRequests>>

NextFormat == CallFormatCurrency

SpecFormat == InitFormat /\ [][NextFormat]_vars

\* the digits of n in groups of three with commas between them
RECURSIVE CommaGrouped(_)
CommaGrouped(n) ==
    IF n < 1000 THEN DigitsOf(n)
    ELSE CommaGrouped(n \div 1000) \o <<",">>
         \o <<Digit[((n \div 100) % 10) + 1], Digit[((n \div 10) % 10) + 1],
              Digit[(n % 10) + 1]>>

\* s is digits, a point and exactly k more digits
HasDecimals(s, k) ==
    /\ Len(s) >= k + 2
    /\ s[Len(s) - k] = "."
    /\ \A j \in 1..Len(s) :
           j # Len(s) - k => \E d \in 1..10 : s[j] = Digit[d]

Dec(m, x) == [mant |-> m, exp |-> x]

\* C11: formatCurrency picks one format by magnitude: from 1,000,000 on
\* '$', value / 1e6 with 2 decimals and 'M'; from 10,000 on '$' and the
\* rounded integer in groups of three with commas; from 1 on 2 decimals;
\* 5 decimals for every other value; 1_500_000 gives "$1.50M", 15_000
\* "$15,000", 2.5 "$2.50" and 0.00042 "$0.00042".
C11_OneFormatPerMagnitude ==
    last.kind = "formatCurrency" =>
        LET v == Val(formatted).value
            r == Val(Val(formatted).result)
            body == SubSeq(r, 2, Len(r))
        IN  /\ r[1] = "$"
            /\ IF AtLeast(v, 1000000)
               THEN /\ r[Len(r)] = "M"
                    /\ HasDecimals(SubSeq(r, 2, Len(r) - 1), 2)
               ELSE IF AtLeast(v, 10000)
               THEN body = CommaGrouped(MathRound(v))
               ELSE IF AtLeast(v, 1)
               THEN HasDecimals(body, 2)
               ELSE HasDecimals(body, 5)
            /\ v = Dec(15, 5) => r = <<"$", "1", ".", "5", "0", "M">>
            /\ v = Dec(15, 3) => r = <<"$", "1", "5", ",", "0", "0", "0">>
            /\ v = Dec(25, -1) => r = <<"$", "2", ".", "5", "0">>
            /\ v = Dec(42, -5) =>
                   r = <<"$", "0", ".", "0", "0", "0", "4", "2">>

\* the same for a runtime whose default locale is en-US
C11_OneFormatPerMagnitudeEnUS ==
    Val(formatted).locale.tag = "en-US" => C11_OneFormatPerMagnitude

-----------------------------------------------------------------------------
(* Properties of the coin directory, the export and the error state *)

\* C12: the coin directory is requested once, at mount, and never again;
\* its response sets the directory to the returned list, or to the empty
\* list on failure, and leaves error, price series and suggestions alone;
\* after the response the directory does not change any more.
C12_DirectoryFetchedOnce ==
    [][/\ coinListRequests = 1
       /\ coinListRequests' = 1
       /\ last'.kind = "coinListOk" =>
              /\ coinsReq = "pending"
              /\ allCoins' = Val(last'.data)
              /\ UNCHANGED <<error, graphData, suggestions>>
       /\ last'.kind = "coinListFail" =>
              /\ coinsReq = "pending"
              /\ allCoins' = <<>>
              /\ UNCHANGED <<error, graphData, suggestions>>
       /\ coinsReq = "done" => (coinsReq' = "done" /\ allCoins' = allCoins)
      ]_vars

\* the directory arrived, then a range fetch was submitted and failed with
\* suggestions from it
C12_Witness ==
    /\ coinsReq = "done"
    /\ Len(allCoins) = 2
    /\ last.kind = "rangeFail"
    /\ Val(last.req).allCoins = allCoins
    /\ suggestions # <<>>

\* C13: the export downloads a file only when a chart is rendered, that is
\* when the price series is non-null and has a price; the file is named
\* after the identifier field as it is then, followed by
\* '-price-chart.svg'; the export changes no state of the widget.
C13_ExportOnlyOfRenderedChart ==
    [][last'.kind = "downloadSVG" =>
           /\ UNCHANGED <<startDate, endDate, cryptoName, graphData,
                          allCoins, suggestions, error, pending, coinsReq>>
           /\ IF graphData # Null /\ Val(graphData).prices # <<>>
              THEN /\ ~IsNull(last'.data)
                   /\ Len(Val(last'.data)) = Len(cryptoName) + 16
                   /\ SubSeq(Val(last'.data), 1, Len(cryptoName)) = cryptoName
                   /\ SubSeq(Val(last'.data), Len(cryptoName) + 1,
                             Len(cryptoName) + 16) = Str_price_chart_svg
              ELSE IsNull(last'.data)
      ]_vars

\* the export ran at its guard: the Download button was there (graphData
\* was not null) but the series had no price, so no svg was rendered
C13_Witness ==
    /\ last.kind = "downloadSVG"
    /\ graphData # Null
    /\ Val(graphData).prices = <<>>
    /\ IsNull(last.data)

\* the export downloaded a chart after the identifier field was changed to
\* something else than the chart was fetched for
C13_WitnessDownload ==
    /\ last.kind = "downloadSVG"
    /\ ~IsNull(last.data)
    /\ cryptoName = Str_x

\* C14 as stated: selecting a suggestion leaves no error message and no
\* suggestion list shown.
C14_SelectionReturnsToIdle ==
    last.kind = "selectSuggestion" =>
        /\ cryptoName = Val(last.data).id
        /\ error = Null
        /\ suggestions = <<>>

\* What the click does do: it sets the identifier field to the suggestion's
\* id and issues no request; error message and suggestion list stay as
\* they are, shown, until a new submit clears them.
C14_SelectionOnlySetsIdentifier ==
    [][last'.kind = "selectSuggestion" =>
           /\ \E k \in 1..Len(suggestions) :
                  /\ last'.data = Some(suggestions[k])
                  /\ cryptoName' = suggestions[k].id
           /\ UNCHANGED <<pending, coinListRequests, coinsReq>>
           /\ UNCHANGED <<error, suggestions, graphData, startDate, endDate,
                          allCoins>>
           /\ suggestions # <<>>
      ]_vars

\* a suggestion was selected in the error state, and the error message is
\* still there
C14_Witness ==
    /\ last.kind = "selectSuggestion"
    /\ cryptoName = Str_bitcoin_cash
    /\ error = Some(ErrorMessage)
    /\ Len(suggestions) = 2

\* C17: the error is null or the one fixed message, and a suggestion list
\* that is not empty comes with an error.
C17_SuggestionsOnlyWithError ==
    /\ error \in {Null, Some(ErrorMessage)}
    /\ suggestions # <<>> => error # Null

\* suggestions and the error of a failed request are shown, and the
\* success of an overlapping request has just put up a chart
C17_Witness ==
    /\ suggestions # <<>>
    /\ error = Some(ErrorMessage)
    /\ last.kind = "rangeOk"
    /\ graphData # Null

\* C18: the suggestions a failed range fetch sets are those for the
\* identifier and the coin directory of the moment its request was
\* submitted, whatever the identifier field and the directory are by then.
C18_SuggestionsFromSubmitTime ==
    last.kind = "rangeFail" =>
        LET typed == Val(last.req).cryptoName
            coins == Val(last.req).allCoins
        IN  /\ \A k \in 1..Len(suggestions) :
                   /\ IsMatch(suggestions[k], typed)
                   /\ \E j \in 1..Len(coins) : coins[j] = suggestions[k]
            /\ \A j \in 1..Len(coins) :
                   IsMatch(coins[j], typed) =>
                       \E k \in 1..Len(suggestions) : suggestions[k] = coins[j]

\* a request submitted before the directory arrived failed after it had
\* arrived and after the identifier was edited: no suggestions, where the
\* directory and the field of that moment have some
C18_Witness ==
    /\ last.kind = "rangeFail"
    /\ Val(last.req).allCoins = <<>>
    /\ suggestions = <<>>
    /\ cryptoName # Val(last.req).cryptoName
    /\ getSuggestions(Val(last.req).cryptoName, allCoins) # <<>>
    /\ getSuggestions(cryptoName, allCoins) # <<>>

\* C15: a submit with all three inputs present sends one range request,
\* for the identifier in lower case, from floor(start / 1000) to
\* floor(end / 1000) seconds, whether or not start <= end, and sets the
\* error to null, the suggestions to empty and the price series to null.
C15_SubmitSendsOneRequestAndClears ==
    [][(last'.kind = "submit" /\ startDate # Null /\ endDate # Null
            /\ cryptoName # <<>>) =>
           /\ Len(pending') = Len(pending) + 1
           /\ \A k \in 1..Len(pending) :
                  pending'[k] = [pending[k] EXCEPT !.overlapped = TRUE]
           /\ last'.req = Some(pending'[Len(pending')])
           /\ coinListRequests' = coinListRequests
           /\ LET sent == pending'[Len(pending')]
              IN  /\ Len(sent.id) = Len(cryptoName)
                  /\ \A k \in 1..Len(cryptoName) :
                         /\ SameLetter(sent.id[k], cryptoName[k])
                         /\ sent.id[k] \notin DOMAIN LowerMap
                  /\ 1000 * sent.from <= Val(startDate)
                  /\ Val(startDate) < 1000 * sent.from + 1000
                  /\ 1000 * sent.to <= Val(endDate)
                  /\ Val(endDate) < 1000 * sent.to + 1000
           /\ error' = Null
           /\ suggestions' = <<>>
           /\ graphData' = Null
      ]_vars

\* a submit with an end date before the start date, the end before 1970,
\* and an identifier in capitals, while an earlier request was in flight
C15_Witness ==
    /\ last.kind = "submit"
    /\ ~IsNull(last.req)
    /\ Val(last.req).from = 1
    /\ Val(last.req).to = -1
    /\ Val(last.req).id = Str_btc
    /\ cryptoName = Str_BTC
    /\ Len(pending) = 2

-----------------------------------------------------------------------------
(* The geometry of renderGraph: scales and points, in double arithmetic *)

\* the bits a without their leading zeros
RECURSIVE Strip(_)
Strip(a) ==
    IF a = <<>> THEN <<>>
    ELSE IF a[1] = 1 THEN a ELSE Strip(Tail(a))

Zeros(k) == [j \in 1..k |-> 0]

Max2(a, b) == IF a >= b THEN a ELSE b

\* the bits p, whose last bit has exponent e, rounded to a double
RoundBits(p, e) ==
    LET q == Strip(p)
        d == Len(q) - Precision
    IN  IF q = <<>> THEN [m |-> <<>>, e |-> 0]
        ELSE IF d <= 0 THEN [m |-> q, e |-> e]
        ELSE Rounded(SubSeq(q, 1, Precision), e + d,
                     /\ q[Precision + 1] = 1
                     /\ \/ \E k \in (Precision + 2)..Len(q) : q[k] = 1
                        \/ q[Precision] = 1)

\* a + b for bit sequences of one length, from bit k down
RECURSIVE AddFrom(_, _, _, _)
AddFrom(a, b, k, carry) ==
    IF k = 0 THEN (IF carry = 1 THEN <<1>> ELSE <<>>)
    ELSE LET t == a[k] + b[k] + carry
         IN  IF t >= 2
             THEN AddFrom(a, b, k - 1, 1) \o <<t - 2>>
             ELSE AddFrom(a, b, k - 1, 0) \o <<t>>

\* a - b for bit sequences of one length with a >= b, from bit k down
RECURSIVE SubFrom(_, _, _, _)
SubFrom(a, b, k, borrow) ==
    IF k = 0 THEN <<>>
    ELSE LET t == a[k] - b[k] - borrow
         IN  IF t < 0
             THEN SubFrom(a, b, k - 1, 1) \o <<t + 2>>
             ELSE SubFrom(a, b, k - 1, 0) \o <<t>>

\* the integer c >= 0 and the double x >= 0 as bit sequences of one length
\* whose last bit has the same exponent
Aligned(c, x) ==
    LET e0 == Min2(0, x.e)
        cb == BitsOf(c) \o Zeros(0 - e0)
        xb == x.m \o Zeros(x.e - e0)
        n  == Max2(Len(cb), Len(xb))
    IN  [c |-> Zeros(n - Len(cb)) \o cb, x |-> Zeros(n - Len(xb)) \o xb,
         n |-> n, e |-> e0]

\* c + x for an integer c >= 0 and a double x >= 0
FlAdd(c, x) ==
    LET a == Aligned(c, x) IN RoundBits(AddFrom(a.c, a.x, a.n, 0), a.e)

\* c - x for an integer c and a double x with c >= x >= 0
FlSub(c, x) ==
    LET a == Aligned(c, x) IN RoundBits(SubFrom(a.c, a.x, a.n, 0), a.e)

\* a JavaScript number that is not negative: a double, Infinity or NaN;
\* -Infinity is there for what a subtraction from a finite number gives
Finite(v) == [kind |-> "finite", val |-> v]
Infinity == [kind |-> "Infinity", val |-> [m |-> <<>>, e |-> 0]]
NegInfinity == [kind |-> "-Infinity", val |-> [m |-> <<>>, e |-> 0]]
NaN == [kind |-> "NaN", val |-> [m |-> <<>>, e |-> 0]]

\* a / b for integers a >= 0, b >= 0
NumDiv(a, b) ==
    IF b # 0 THEN Finite(FlDiv(a, b))
    ELSE IF a = 0 THEN NaN ELSE Infinity

\* i * x for an integer i >= 0 and a number x
NumMul(i, x) ==
    IF x.kind = "NaN" THEN NaN
    ELSE IF x.kind = "Infinity" THEN (IF i = 0 THEN NaN ELSE Infinity)
    ELSE IF i = 0 THEN Finite([m |-> <<>>, e |-> 0])
    ELSE Finite(FlMul(i, x.val))

\* c + x for an integer c >= 0 and a number x
NumAdd(c, x) ==
    IF x.kind = "finite" THEN Finite(FlAdd(c, x.val)) ELSE x

\* c - x for an integer c >= 0 and a number x that, finite, is at most c
NumSub(c, x) ==
    IF x.kind = "finite" THEN Finite(FlSub(c, x.val))
    ELSE IF x.kind = "Infinity" THEN NegInfinity
    ELSE NaN

width == 400
height == 450
padding == [top |-> 60, right |-> 80, bottom |-> 40, left |-> 40]

\* Math.min(...sampledPrices.map((p) => p[1]))
MinPrice(s) ==
    CHOOSE v \in {s[k][2] : k \in 1..Len(s)} :
        \A k \in 1..Len(s) : v <= s[k][2]

\* Math.max(...sampledPrices.map((p) => p[1]))
MaxPrice(s) ==
    CHOOSE v \in {s[k][2] : k \in 1..Len(s)} :
        \A k \in 1..Len(s) : v >= s[k][2]

\* points with y measured down from the top margin
Geometry_YFromTop(s) ==
    LET xScale == NumDiv(width - padding.left - padding.right, Len(s) - 1)
        yMin   == MinPrice(s)
        yMax   == MaxPrice(s)
        yScale == NumDiv(height - padding.top - padding.bottom, yMax - yMin)
    IN  [yMin |-> yMin, yMax |-> yMax, xScale |-> xScale, yScale |-> yScale,
         points |->
             [i \in 1..Len(s) |->
                 [x |-> NumAdd(padding.left, NumMul(i - 1, xScale)),
                  y |-> NumAdd(padding.top,
                               NumMul(s[i][2] - yMin, yScale))]]]

\* xScale, yMin, yMax, yScale and points of renderGraph, for sampled prices
\* that are whole numbers
Geometry(s) ==
    LET xScale == NumDiv(width - padding.left - padding.right, Len(s) - 1)
        yMin   == MinPrice(s)
        yMax   == MaxPrice(s)
        yScale == NumDiv(height - padding.top - padding.bottom, yMax - yMin)
    IN  [yMin |-> yMin, yMax |-> yMax, xScale |-> xScale, yScale |-> yScale,
         points |->
             [i \in 1..Len(s) |->
                 [x |-> NumAdd(padding.left, NumMul(i - 1, xScale)),
                  y |-> NumSub(height - padding.bottom,
                               NumMul(s[i][2] - yMin, yScale))]]]

\* a price series of n points that climbs by one from 1 and starts over
\* after period points: flat for period 1, a ramp up to n <= period
Sawtooth(n, period) ==
    [k \in 1..n |-> <<1000 * (k - 1), 1 + ((k - 1) % period)>>]

RenderPeriods == {1, 2, 7, 78, 80}

InitRender ==
    /\ graphData \in
           {Null} \cup {Some([prices |-> Sawtooth(n, period)]) :
                            n \in 0..MaxLen, period \in RenderPeriods}
    /\ sampledPrices = Null
    /\ startDate = Null
    /\ endDate = Null
    /\ cryptoName = <<>>
    /\ allCoins = <<>>
    /\ suggestions = <<>>
    /\ error = Null
    /\ pending = <<>>
    /\ coinsReq = "done"
    /\ rendered = Null
    /\ formatted = Null
    /\ coinListRequests = 1
    /\ last = Handler("input", Null, Null)

\* renderGraph with the geometry of another axis
RenderGraph_YFromTop ==
    /\ last.kind = "input"
    /\ IF IsNull(graphData) \/ Len(Val(graphData).prices) = 0
       THEN /\ sampledPrices' = Null
            /\ rendered' = Null
       ELSE LET sampled == downsampleData(Val(graphData).prices, TargetPoints)
            IN  /\ sampledPrices' = Some(sampled)
                /\ rendered' = Some(Geometry_YFromTop(sampled))
    /\ last' = Handler("renderGraph", Null, Null)
    /\ UNCHANGED <<startDate, endDate, cryptoName, graphData, allCoins,
                   suggestions, error, pending, coinsReq, formatted,
                   coinListRequests>>

\* renderGraph down to its points: null for no series or an empty one
RenderGraph ==
    /\ last.kind = "input"
    /\ IF IsNull(graphData) \/ Len(Val(graphData).prices) = 0
       THEN /\ sampledPrices' = Null
            /\ rendered' = Null
       ELSE LET sampled == downsampleData(Val(graphData).prices, TargetPoints)
            IN  /\ sampledPrices' = Some(sampled)
                /\ rendered' = Some(Geometry(sampled))
    /\ last' = Handler("renderGraph", Null, Null)
    /\ UNCHANGED <<startDate, endDate, cryptoName, graphData, allCoins,
                   suggestions, error, pending, coinsReq, formatted,
                   coinListRequests>>

NextRender == RenderGraph

SpecRender == InitRender /\ [][NextRender]_vars

-----------------------------------------------------------------------------
(* Properties of the geometry *)

\* bit k after the binary point of the double x
FracBit(x, k) ==
    LET j == Len(x.m) + x.e + k
    IN  IF j >= 1 /\ j <= Len(x.m) THEN x.m[j] ELSE 0

FracLen(x) == Max2(0, 0 - x.e)

\* the double x is the integer c
Equals(x, c) ==
    /\ FlFloor(x) = c
    /\ \A k \in 1..FracLen(x) : FracBit(x, k) = 0

\* the double x is less than 2^-40 away from the integer c
Near(x, c) ==
    \/ FlFloor(x) = c /\ \A k \in 1..40 : FracBit(x, k) = 0
    \/ FlFloor(x) = c - 1 /\ \A k \in 1..40 : FracBit(x, k) = 1

\* a <= b for doubles a, b >= 0
Leq(a, b) ==
    LET n == Max2(FracLen(a), FracLen(b))
    IN  \/ FlFloor(a) < FlFloor(b)
        \/ /\ FlFloor(a) = FlFloor(b)
           /\ \/ \A k \in 1..n : FracBit(a, k) = FracBit(b, k)
              \/ \E k \in 1..n :
                     /\ FracBit(a, k) < FracBit(b, k)
                     /\ \A j \in 1..(k - 1) : FracBit(a, j) = FracBit(b, j)

\* renderGraph has drawn a sampled series of two points or more whose
\* prices are not all the same
ScaledSeries ==
    /\ last.kind = "renderGraph"
    /\ rendered # Null
    /\ Len(Val(sampledPrices)) >= 2
    /\ Val(rendered).yMin < Val(rendered).yMax

\* point i is at 40 + (i - 1) * 280 / (n - 1) from the left, the first on
\* the left edge 40 and the last on the right edge 320, and a later point
\* is never further left
XAcrossBand ==
    LET pts == Val(rendered).points
        n   == Len(pts)
    IN  /\ \A i \in 1..n : pts[i].x.kind = "finite"
        /\ Equals(pts[1].x.val, 40)
        /\ Equals(pts[n].x.val, 320)
        /\ \A i \in 1..n :
               LET q == 40 + ((280 * (i - 1)) \div (n - 1))
               IN  IF (280 * (i - 1)) % (n - 1) = 0
                   THEN Near(pts[i].x.val, q)
                   ELSE FlFloor(pts[i].x.val) = q
        /\ \A i \in 1..(n - 1) : Leq(pts[i].x.val, pts[i + 1].x.val)

\* a higher price never has a larger y
YMonotone ==
    LET pts == Val(rendered).points
        s   == Val(sampledPrices)
    IN  \A i, j \in 1..Len(pts) :
            s[i][2] > s[j][2] => Leq(pts[i].y.val, pts[j].y.val)

\* C16 as stated: the points go across the horizontal band edge to edge,
\* every y is in [60, 410], the minimum price is at 410 and the maximum
\* price at 60, and a higher price never has a larger y.
C16_PointsFillTheBand ==
    ScaledSeries =>
        LET g == Val(rendered)
            s == Val(sampledPrices)
        IN  /\ XAcrossBand
            /\ \A i \in 1..Len(s) :
                   /\ g.points[i].y.kind = "finite"
                   /\ FlFloor(g.points[i].y.val) >= 60
                   /\ \/ FlFloor(g.points[i].y.val) < 410
                      \/ Equals(g.points[i].y.val, 410)
                   /\ s[i][2] = g.yMin => Equals(g.points[i].y.val, 410)
                   /\ s[i][2] = g.yMax => Equals(g.points[i].y.val, 60)
            /\ YMonotone

\* C16 amended: as stated, with the maximum price at the top edge, and every
\* y in the band, up to the rounding of the double arithmetic: less than
\* 2^-40 of a pixel away.
C16_PointsFillTheBandUpToRounding ==
    ScaledSeries =>
        LET g == Val(rendered)
            s == Val(sampledPrices)
        IN  /\ XAcrossBand
            /\ \A i \in 1..Len(s) :
                   /\ g.points[i].y.kind = "finite"
                   /\ \/ FlFloor(g.points[i].y.val) >= 60
                      \/ Near(g.points[i].y.val, 60)
                   /\ \/ FlFloor(g.points[i].y.val) < 410
                      \/ Equals(g.points[i].y.val, 410)
                   /\ s[i][2] = g.yMin => Equals(g.points[i].y.val, 410)
                   /\ s[i][2] = g.yMax => Near(g.points[i].y.val, 60)
            /\ YMonotone

\* 75 sampled points with prices from 1 to 78: the point of the highest
\* price is above the top edge, by less than 2^-40
C16_Witness ==
    /\ ScaledSeries
    /\ Len(Val(sampledPrices)) = 75
    /\ Val(rendered).yMax - Val(rendered).yMin = 77
    /\ \E i \in 1..75 :
           /\ Val(sampledPrices)[i][2] = Val(rendered).yMax
           /\ FlFloor(Val(rendered).points[i].y.val) = 59
           /\ Near(Val(rendered).points[i].y.val, 60)

\* C19: for every series with a price, renderGraph's geometry is defined:
\* the sampled series has more than one point and its highest price is not
\* its lowest, so that no scale is a division by zero and every point has
\* coordinates.
C19_GeometryWellDefined ==
    (/\ last.kind = "renderGraph"
     /\ graphData # Null
     /\ Len(Val(graphData).prices) # 0) =>
        /\ rendered # Null
        /\ Len(Val(sampledPrices)) - 1 # 0
        /\ Val(rendered).yMax - Val(rendered).yMin # 0
        /\ Val(rendered).xScale.kind = "finite"
        /\ Val(rendered).yScale.kind = "finite"
        /\ \A i \in 1..Len(Val(rendered).points) :
               /\ Val(rendered).points[i].x.kind = "finite"
               /\ Val(rendered).points[i].y.kind = "finite"

====
